---- MODULE Spec2Model ----
(***************************************************************************)
(* OpenSSL::KDF.pbkdf2_hmac (ext/openssl/ossl_kdf.c).                      *)
(*                                                                         *)
(* The binding converts its Ruby arguments, allocates the output string    *)
(* and hands everything to the library function PKCS5_PBKDF2_HMAC.  Each   *)
(* call is a small process whose program counter is the source line it is  *)
(* about to execute; kwargs_ids is the one static object all calls share.  *)
(***************************************************************************)
EXTENDS Integers, Sequences, FiniteSets, TLC

\* ------------------------------------------------------------------ bounds
MaxIters == 3
MaxKeyLen == 7

\* ------------------------------------------------------------ Ruby values
\* A VALUE is a tagged record.  Integers are arbitrary precision in Ruby;
\* their magnitude is kept as hi * 2^16 + lo so that values beyond the C int
\* range (2^31, 2^34) can be named.
Nil == [t |-> "nil", s |-> <<>>, neg |-> FALSE, hi |-> 0, lo |-> 0]
Undef == [t |-> "undef", s |-> <<>>, neg |-> FALSE, hi |-> 0, lo |-> 0]
Str(bytes) == [t |-> "str", s |-> bytes, neg |-> FALSE, hi |-> 0, lo |-> 0]
Integer(n) == [t |-> "int", s |-> <<>>, neg |-> (n < 0), hi |-> 0,
           lo |-> IF n < 0 THEN 0 - n ELSE n]
Bignum(h, l) == [t |-> "int", s |-> <<>>, neg |-> FALSE, hi |-> h, lo |-> l]

Thread == {1, 2}

NoErr == "none"
NoResult == [ret |-> FALSE, val |-> <<>>]
NoStr == [alloc |-> FALSE, buf |-> <<>>]

\* rb_intern_const: a name's ID, never 0.
rb_intern_const(name) ==
    CASE name = "salt" -> 1
      [] name = "iterations" -> 2
      [] name = "length" -> 3
      [] name = "hash" -> 4

\* Lines 42-47: the lazy initialisation of the static table.
InitIdsPartial(ids) ==
    IF ids[1] = 0
    THEN <<rb_intern_const("salt"), 0, 0, 0>>
    ELSE <<rb_intern_const("salt"), rb_intern_const("iterations"),
           rb_intern_const("length"), rb_intern_const("hash")>>

InitIds(ids) ==
    IF ids[1] = 0
    THEN <<rb_intern_const("salt"), rb_intern_const("iterations"),
           rb_intern_const("length"), rb_intern_const("hash")>>
    ELSE ids

\* rb_get_kwargs(opts, kwargs_ids, 4, 0, kwargs): the four required keywords
\* looked up by ID; a keyword that is not in the hash raises ArgumentError.
rb_get_kwargs(o, ids) ==
    LET look(i) == IF ids[i] \in DOMAIN o THEN o[ids[i]] ELSE Undef
        vals == [i \in 1..4 |-> look(i)]
    IN  [err |-> IF \E i \in 1..4 : vals[i].t = "undef"
                 THEN "ArgumentError" ELSE NoErr,
         vals |-> vals]

\* StringValue: a String stays; anything else here has no to_str.
StringValue(v) == [err |-> IF v.t = "str" THEN NoErr ELSE "TypeError", val |-> v]

\* NUM2INT: an Integer inside [-2^31, 2^31 - 1] converts exactly;
\* outside it raises RangeError; a non-Integer raises TypeError.
FitsInt(v) ==
    IF v.neg THEN v.hi = 0 ELSE v.hi < 32768

NUM2INTWrap(v) ==
    IF v.t # "int" THEN [err |-> "TypeError", val |-> 0]
    ELSE IF v.neg THEN [err |-> NoErr, val |-> 0 - v.lo]
    ELSE LET h == v.hi % 65536
         IN  [err |-> NoErr,
              val |-> IF h >= 32768 THEN (h - 65536) * 65536 + v.lo
                      ELSE h * 65536 + v.lo]

NUM2INT(v) ==
    IF v.t # "int" THEN [err |-> "TypeError", val |-> 0]
    ELSE IF ~FitsInt(v) THEN [err |-> "RangeError", val |-> 0]
    ELSE [err |-> NoErr,
          val |-> IF v.neg THEN 0 - v.lo ELSE v.hi * 65536 + v.lo]

\* ---------------------------------------------------------------- digests
\* Two stand-in digests of different size; md is the EVP_MD pointer, 0 = NULL.
MdSize(md) == IF md = 1 THEN 2 ELSE 3

EVP_get_digestbyname(name) ==
    CASE name = <<65>> -> 1
      [] name = <<66>> -> 2
      [] OTHER -> 0

\* GetDigestPtr (ossl_digest.c): a String is resolved by name, an unknown
\* name raises; any other object here is not a Digest.
GetDigestPtr(v) ==
    IF v.t # "str" THEN [err |-> "TypeError", md |-> 0]
    ELSE IF EVP_get_digestbyname(v.s) = 0
         THEN [err |-> "UnsupportedDigest", md |-> 0]
         ELSE [err |-> NoErr, md |-> EVP_get_digestbyname(v.s)]

\* rb_str_new(0, len): a fresh string of len bytes whose content is
\* indeterminate (written -1) until something stores into it; a negative
\* length raises ArgumentError.
rb_str_new_clamp(n) ==
    IF n < 0 THEN [err |-> NoErr, str |-> [alloc |-> TRUE, buf |-> <<>>]]
    ELSE [err |-> NoErr, str |-> [alloc |-> TRUE, buf |-> [k \in 1..n |-> -1]]]

rb_str_new_plus1(n) ==
    IF n < 0 THEN [err |-> "ArgumentError", str |-> NoStr]
    ELSE [err |-> NoErr, str |-> [alloc |-> TRUE, buf |-> [k \in 1..(n + 1) |-> -1]]]

rb_str_new(n) ==
    IF n < 0 THEN [err |-> "ArgumentError", str |-> NoStr]
    ELSE [err |-> NoErr, str |-> [alloc |-> TRUE, buf |-> [k \in 1..n |-> -1]]]

\* RSTRING_LENINT: the string's length as an int.
RSTRING_LENINT(v) == Len(v.s)

\* -------------------------------------------------------------------- PRF
RECURSIVE XorByte(_, _)
XorByte(a, b) ==
    IF a = 0 /\ b = 0 THEN 0
    ELSE (((a % 2) + (b % 2)) % 2) + (2 * XorByte(a \div 2, b \div 2))

RECURSIVE Mix(_, _)
Mix(acc, s) ==
    IF s = <<>> THEN acc
    ELSE Mix(((acc * 31) + Head(s) + 1) % 256, Tail(s))

\* HMAC under digest md: a deterministic keyed function of (key, message)
\* with MdSize(md) output bytes.
HMAC(md, key, msg) ==
    LET k == Mix(17 * md, key)
        m == Mix(((k * 5) + 3) % 256, msg)
    IN  [i \in 1..MdSize(md) |-> ((m * 7) + (k * 3) + (29 * i)) % 256]

\* The 4-byte big-endian block index.
INT(i) ==
    <<(i \div 16777216) % 256, (i \div 65536) % 256, (i \div 256) % 256, i % 256>>

\* ------------------------------------------------- PKCS5_PBKDF2_HMAC (libcrypto)
\* for (j = 1; j < iter; j++): HMAC the previous digest, XOR its first cplen
\* bytes into the block being built in place in the output.
RECURSIVE P5Rounds(_, _, _, _, _, _, _)
P5Rounds(md, pw, digtmp, p, j, iter, cplen) ==
    IF ~(j < iter) THEN p
    ELSE LET d == HMAC(md, pw, digtmp)
         IN  P5Rounds(md, pw, d, [k \in 1..cplen |-> XorByte(p[k], d[k])],
                      j + 1, iter, cplen)

\* while (tkeylen): one block per round, cplen = min(tkeylen, mdlen) bytes of
\* it are stored, i++.
RECURSIVE P5Blocks(_, _, _, _, _, _, _)
P5Blocks(md, pw, sl, iter, tkeylen, i, key) ==
    IF tkeylen = 0 THEN [key |-> key, last |-> i - 1]
    ELSE LET mdlen == MdSize(md)
             cplen == IF tkeylen > mdlen THEN mdlen ELSE tkeylen
             digtmp == HMAC(md, pw, sl \o INT(i))
             blk == P5Rounds(md, pw, digtmp, SubSeq(digtmp, 1, cplen), 1, iter, cplen)
         IN  P5Blocks(md, pw, sl, iter, tkeylen - cplen, i + 1, key \o blk)

P5PrfCalls(md, iter, keylen) ==
    LET l == (keylen + MdSize(md) - 1) \div MdSize(md)
    IN  l * (IF iter > 1 THEN iter ELSE 1)

\* The bytes of key stored from the start of the caller's buffer.
Stored(out, key) ==
    [k \in 1..Len(out) |-> IF k <= Len(key) THEN key[k] ELSE out[k]]

P5Failure(out) == [ret |-> 0, out |-> out, prf |-> 0, last |-> 0]

\* The library call.  fl is an internal failure of the library (its HMAC
\* context cannot be set up).  Library generations differ on iter < 1: the
\* 1.0.2/1.1 loop runs no extra round and succeeds, 3.x refuses the count.
PKCS5_PBKDF2_HMAC(lb, fl, pw, passlen, sl, saltlen, iter, md, keylen, out) ==
    IF fl \/ (lb = "strict" /\ iter < 1) THEN P5Failure(out)
    ELSE LET r == P5Blocks(md, SubSeq(pw, 1, passlen), SubSeq(sl, 1, saltlen),
                           iter, keylen, 1, <<>>)
         IN  [ret |-> 1, out |-> Stored(out, r.key),
              prf |-> P5PrfCalls(md, iter, keylen), last |-> r.last]

\* Lines 58-61: the arguments the binding passes.
CallPKCS5LenIters(lb, fl, p, s, it, m, ln, st) ==
    PKCS5_PBKDF2_HMAC(lb, fl, p.s, RSTRING_LENINT(p), s.s, RSTRING_LENINT(s),
                      ln, m, it, st.buf)

CallPKCS5Swapped(lb, fl, p, s, it, m, ln, st) ==
    PKCS5_PBKDF2_HMAC(lb, fl, s.s, RSTRING_LENINT(s), p.s, RSTRING_LENINT(p),
                      it, m, ln, st.buf)

CallPKCS5(lb, fl, p, s, it, m, ln, st) ==
    PKCS5_PBKDF2_HMAC(lb, fl, p.s, RSTRING_LENINT(p), s.s, RSTRING_LENINT(s),
                      it, m, ln, st.buf)

\* Line 58: if (!PKCS5_PBKDF2_HMAC(...)) ossl_raise(eKDF, ...)
P5FailedIgnored(ret) == FALSE

P5Failed(ret) == ret = 0

\* The order of the statements, by the line each starts on.
NextPcAllocFirst(p) ==
    CASE p = "L42" -> "L48"
      [] p = "L48" -> "L51"
      [] p = "L51" -> "L53"
      [] p = "L53" -> "L57"
      [] p = "L57" -> "L55"
      [] p = "L55" -> "L58"
      [] p = "L58" -> "done"

NextPc(p) ==
    CASE p = "L42" -> "L48"
      [] p = "L48" -> "L51"
      [] p = "L51" -> "L53"
      [] p = "L53" -> "L55"
      [] p = "L55" -> "L57"
      [] p = "L57" -> "L58"
      [] p = "L58" -> "done"

\* ------------------------------------------------------------------ state
VARIABLES lib, live, kwargs_ids, pc, argv, fault,
          pass, kwargs, salt, iters, len, md, str, result, err, prf, last

vars == <<lib, live, kwargs_ids, pc, argv, fault,
          pass, kwargs, salt, iters, len, md, str, result, err, prf, last>>

\* ---------------------------------------------------------------- requests
\* Arguments of a call: the positional pass and the keyword values
\* (Undef: the keyword is not given).
Passwords == {Str(<<>>), Str(<<112, 119>>), Nil}
Salts == {Str(<<115>>), Str(<<115, 97>>), Undef}
Iterations == {Integer(n) : n \in -1..MaxIters} \cup {Bignum(32768, 0), Nil}
Lengths == {Integer(n) : n \in -1..MaxKeyLen} \cup {Bignum(32768, 0), Bignum(262144, 0)}
Hashes == {Str(<<65>>), Str(<<66>>), Str(<<90>>), Nil}

\* The smaller set two concurrent callers draw from.
PasswordsC == {Str(<<112, 119>>)}
SaltsC == {Str(<<115>>), Undef}
IterationsC == {Integer(0), Integer(1), Integer(2)}
LengthsC == {Integer(-1), Integer(2), Integer(3), Integer(4)}
HashesC == {Str(<<65>>), Str(<<90>>)}

Opts(sv, iv, lv, hv) ==
    LET vals == <<sv, iv, lv, hv>>
    IN  [k \in {i \in 1..4 : vals[i].t # "undef"} |-> vals[k]]

Requests(two) ==
    IF two
    THEN {[pass |-> p, opts |-> Opts(s, i, l, h)] :
            p \in PasswordsC, s \in SaltsC, i \in IterationsC, l \in LengthsC, h \in HashesC}
    ELSE {[pass |-> p, opts |-> Opts(s, i, l, h)] :
            p \in Passwords, s \in Salts, i \in Iterations, l \in Lengths, h \in Hashes}

Faults(two) == IF two THEN {FALSE} ELSE BOOLEAN

\* ------------------------------------------------------------------- Init
InitCommon ==
    /\ lib \in {"legacy", "strict"}
    /\ kwargs_ids = <<0, 0, 0, 0>>
    /\ pc = [t \in Thread |-> "idle"]
    /\ argv = [t \in Thread |-> [pass |-> Nil, opts |-> Opts(Undef, Undef, Undef, Undef)]]
    /\ fault = [t \in Thread |-> FALSE]
    /\ pass = [t \in Thread |-> Nil]
    /\ kwargs = [t \in Thread |-> <<Undef, Undef, Undef, Undef>>]
    /\ salt = [t \in Thread |-> Nil]
    /\ iters = [t \in Thread |-> 0]
    /\ len = [t \in Thread |-> 0]
    /\ md = [t \in Thread |-> 0]
    /\ str = [t \in Thread |-> NoStr]
    /\ result = [t \in Thread |-> NoResult]
    /\ err = [t \in Thread |-> NoErr]
    /\ prf = [t \in Thread |-> 0]
    /\ last = [t \in Thread |-> 0]

Init == InitCommon /\ live = {1}

InitConc == InitCommon /\ live = Thread

\* ---------------------------------------------------------------- actions
locals == <<pass, kwargs, salt, iters, len, md, str, result, prf, last>>

\* A caller enters kdf_pbkdf2_hmac with its arguments.
Call(t) ==
    /\ t \in live
    /\ pc[t] = "idle"
    /\ \E a \in Requests(live = Thread), f \in Faults(live = Thread) :
          /\ argv' = [argv EXCEPT ![t] = a]
          /\ fault' = [fault EXCEPT ![t] = f]
    /\ pc' = [pc EXCEPT ![t] = "L42"]
    /\ UNCHANGED <<lib, live, kwargs_ids, err, locals>>

\* The caller has taken the outcome; the frame and its locals are gone.
Return(t) ==
    /\ pc[t] = "done"
    /\ pc' = [pc EXCEPT ![t] = "idle"]
    /\ argv' = [argv EXCEPT ![t] = [pass |-> Nil, opts |-> Opts(Undef, Undef, Undef, Undef)]]
    /\ fault' = [fault EXCEPT ![t] = FALSE]
    /\ pass' = [pass EXCEPT ![t] = Nil]
    /\ kwargs' = [kwargs EXCEPT ![t] = <<Undef, Undef, Undef, Undef>>]
    /\ salt' = [salt EXCEPT ![t] = Nil]
    /\ iters' = [iters EXCEPT ![t] = 0]
    /\ len' = [len EXCEPT ![t] = 0]
    /\ md' = [md EXCEPT ![t] = 0]
    /\ str' = [str EXCEPT ![t] = NoStr]
    /\ result' = [result EXCEPT ![t] = NoResult]
    /\ err' = [err EXCEPT ![t] = NoErr]
    /\ prf' = [prf EXCEPT ![t] = 0]
    /\ last' = [last EXCEPT ![t] = 0]
    /\ UNCHANGED <<lib, live, kwargs_ids>>

\* An exception leaves the function: nothing is returned.
Goto(t, e) ==
    /\ err' = [err EXCEPT ![t] = e]
    /\ pc' = [pc EXCEPT ![t] = IF e = NoErr THEN NextPc(pc[t]) ELSE "done"]

\* Lines 42-47, split: the first slot is stored, the caller can be
\* descheduled, the other three are stored in a later step.
L42Split(t) ==
    /\ pc[t] \in {"L42", "L44"}
    /\ kwargs_ids' = IF pc[t] = "L42" /\ kwargs_ids[1] = 0
                     THEN <<rb_intern_const("salt"), 0, 0, 0>>
                     ELSE IF pc[t] = "L44" THEN InitIds(<<0, 0, 0, 0>>)
                     ELSE kwargs_ids
    /\ pc' = [pc EXCEPT ![t] = IF pc[t] = "L42" /\ kwargs_ids[1] = 0
                               THEN "L44" ELSE "L48"]
    /\ UNCHANGED <<lib, live, argv, fault, err, locals>>

\* Lines 42-47: if (!kwargs_ids[0]) { kwargs_ids[0..3] = rb_intern_const(..) }
L42(t) ==
    /\ pc[t] = "L42"
    /\ kwargs_ids' = InitIds(kwargs_ids)
    /\ Goto(t, NoErr)
    /\ UNCHANGED <<lib, live, argv, fault, locals>>

\* Lines 48-49: rb_scan_args, rb_get_kwargs.
L48(t) ==
    /\ pc[t] = "L48"
    /\ LET r == rb_get_kwargs(argv[t].opts, kwargs_ids)
       IN  /\ pass' = [pass EXCEPT ![t] = argv[t].pass]
           /\ kwargs' = [kwargs EXCEPT ![t] = r.vals]
           /\ Goto(t, r.err)
    /\ UNCHANGED <<lib, live, kwargs_ids, argv, fault,
                   salt, iters, len, md, str, result, prf, last>>

\* Lines 51-52: StringValue(pass); salt = StringValue(kwargs[0]).
L51(t) ==
    /\ pc[t] = "L51"
    /\ LET p == StringValue(pass[t])
           s == StringValue(kwargs[t][1])
       IN  IF p.err # NoErr
           THEN Goto(t, p.err) /\ UNCHANGED salt
           ELSE /\ Goto(t, s.err)
                /\ salt' = [salt EXCEPT ![t] = IF s.err = NoErr THEN s.val ELSE @]
    /\ UNCHANGED <<lib, live, kwargs_ids, argv, fault,
                   pass, kwargs, iters, len, md, str, result, prf, last>>

\* Lines 53-54: iters = NUM2INT(kwargs[1]); len = NUM2INT(kwargs[2]).
L53(t) ==
    /\ pc[t] = "L53"
    /\ LET i == NUM2INT(kwargs[t][2])
           l == NUM2INT(kwargs[t][3])
       IN  IF i.err # NoErr
           THEN Goto(t, i.err) /\ UNCHANGED <<iters, len>>
           ELSE /\ iters' = [iters EXCEPT ![t] = i.val]
                /\ Goto(t, l.err)
                /\ len' = [len EXCEPT ![t] = IF l.err = NoErr THEN l.val ELSE @]
    /\ UNCHANGED <<lib, live, kwargs_ids, argv, fault,
                   pass, kwargs, salt, md, str, result, prf, last>>

\* Line 55: md = GetDigestPtr(kwargs[3]).
L55(t) ==
    /\ pc[t] = "L55"
    /\ LET d == GetDigestPtr(kwargs[t][4])
       IN  /\ md' = [md EXCEPT ![t] = d.md]
           /\ Goto(t, d.err)
    /\ UNCHANGED <<lib, live, kwargs_ids, argv, fault,
                   pass, kwargs, salt, iters, len, str, result, prf, last>>

\* Line 57: str = rb_str_new(0, len).
L57(t) ==
    /\ pc[t] = "L57"
    /\ LET a == rb_str_new(len[t])
       IN  /\ str' = [str EXCEPT ![t] = a.str]
           /\ Goto(t, a.err)
    /\ UNCHANGED <<lib, live, kwargs_ids, argv, fault,
                   pass, kwargs, salt, iters, len, md, result, prf, last>>

\* Lines 58-64: the library call; failure raises KDFError, success returns str.
L58(t) ==
    /\ pc[t] = "L58"
    /\ LET r == CallPKCS5(lib, fault[t], pass[t], salt[t], iters[t], md[t], len[t], str[t])
       IN  /\ str' = [str EXCEPT ![t] = [alloc |-> TRUE, buf |-> r.out]]
           /\ prf' = [prf EXCEPT ![t] = r.prf]
           /\ last' = [last EXCEPT ![t] = r.last]
           /\ IF P5Failed(r.ret)
              THEN Goto(t, "KDFError") /\ UNCHANGED result
              ELSE /\ Goto(t, NoErr)
                   /\ result' = [result EXCEPT ![t] = [ret |-> TRUE, val |-> r.out]]
    /\ UNCHANGED <<lib, live, kwargs_ids, argv, fault,
                   pass, kwargs, salt, iters, len, md>>

Next ==
    \E t \in Thread :
        \/ Call(t)
        \/ L42(t)
        \/ L48(t)
        \/ L51(t)
        \/ L53(t)
        \/ L55(t)
        \/ L57(t)
        \/ L58(t)
        \/ Return(t)

Spec == Init /\ [][Next]_vars

SpecConc == InitConc /\ [][Next]_vars

\* ------------------------------------------------- RFC 8018 5.2, as written
XorSeq(a, b) == [k \in 1..Len(a) |-> XorByte(a[k], b[k])]

\* U_1 = PRF(P, S || INT(i)), U_j = PRF(P, U_{j-1})
RECURSIVE RFC_U(_, _, _, _, _)
RFC_U(h, P, S, i, j) ==
    IF j = 1 THEN HMAC(h, P, S \o INT(i))
    ELSE HMAC(h, P, RFC_U(h, P, S, i, j - 1))

\* U_1 XOR ... XOR U_c
RECURSIVE RFC_F(_, _, _, _, _)
RFC_F(h, P, S, c, i) ==
    IF c = 1 THEN RFC_U(h, P, S, i, 1)
    ELSE XorSeq(RFC_F(h, P, S, c - 1, i), RFC_U(h, P, S, i, c))

\* T_1 || ... || T_l
RECURSIVE RFC_T(_, _, _, _, _)
RFC_T(h, P, S, c, l) ==
    IF l = 0 THEN <<>>
    ELSE RFC_T(h, P, S, c, l - 1) \o RFC_F(h, P, S, c, l)

RFC_DK(h, P, S, c, dkLen) ==
    LET hLen == MdSize(h)
        l == (dkLen + hLen - 1) \div hLen
    IN  SubSeq(RFC_T(h, P, S, c, l), 1, dkLen)

\* ------------------------------------------------- what a call was asked
ReqOf(a, k) == IF k \in DOMAIN a.opts THEN a.opts[k] ELSE Undef
ReqPass(t) == argv[t].pass
ReqSalt(t) == ReqOf(argv[t], 1)
ReqIters(t) == ReqOf(argv[t], 2)
ReqLen(t) == ReqOf(argv[t], 3)
ReqHash(t) == ReqOf(argv[t], 4)

IsCInt(v) == v.t = "int" /\ (IF v.neg THEN v.hi = 0 ELSE v.hi < 32768)
CIntOf(v) == IF v.neg THEN 0 - v.lo ELSE (v.hi * 65536) + v.lo
HashOf(v) == IF v.s = <<65>> THEN 1 ELSE IF v.s = <<66>> THEN 2 ELSE 0
Resolvable(v) == v.t = "str" /\ HashOf(v) # 0

StringsOk(t) == ReqPass(t).t = "str" /\ ReqSalt(t).t = "str"
ItersOk(t) == IsCInt(ReqIters(t)) /\ CIntOf(ReqIters(t)) >= 1
LenOk(t) == IsCInt(ReqLen(t)) /\ CIntOf(ReqLen(t)) >= 0
ValidRequest(t) == StringsOk(t) /\ ItersOk(t) /\ LenOk(t) /\ Resolvable(ReqHash(t))

Done(t) == pc[t] = "done"

ExpectedKey(t) ==
    RFC_DK(HashOf(ReqHash(t)), ReqPass(t).s, ReqSalt(t).s,
           CIntOf(ReqIters(t)), CIntOf(ReqLen(t)))

\* ------------------------------------------------------------------ claims

\* C1: a valid request that the library serves returns exactly the first
\* outputLength bytes of T_1 || ... || T_l of RFC 8018 5.2, block index
\* starting at 1, INT(i) big-endian.
C1_ReturnsRfcKey ==
    \A t \in Thread :
        (Done(t) /\ ValidRequest(t) /\ ~fault[t]) =>
            /\ err[t] = NoErr
            /\ result[t] = [ret |-> TRUE, val |-> ExpectedKey(t)]

C1_Witness ==
    \E t \in Thread :
        /\ Done(t) /\ ValidRequest(t) /\ ~fault[t]
        /\ result[t].ret
        /\ ReqIters(t) = Integer(3) /\ ReqLen(t) = Integer(7)
        /\ ReqHash(t) = Str(<<66>>) /\ ReqPass(t) = Str(<<112, 119>>)

\* C2: the key returned for a valid request has exactly outputLength bytes,
\* whether or not outputLength is a multiple of hLen, and outputLength = 0
\* returns the empty string without error.
C2_LengthExact ==
    \A t \in Thread :
        /\ (Done(t) /\ ValidRequest(t) /\ result[t].ret) =>
               Len(result[t].val) = CIntOf(ReqLen(t))
        /\ (Done(t) /\ ValidRequest(t) /\ ~fault[t] /\ ReqLen(t) = Integer(0)) =>
               (err[t] = NoErr /\ result[t] = [ret |-> TRUE, val |-> <<>>])

C2_Witness ==
    \E t \in Thread :
        /\ Done(t) /\ ValidRequest(t) /\ result[t].ret
        /\ ReqLen(t) = Integer(5) /\ ReqHash(t) = Str(<<65>>)
        /\ Len(result[t].val) = 5

\* C3: a call with iterations < 1 fails, before any PRF invocation, and
\* returns no key.
C3_IterationsBelowOneRejected ==
    \A t \in Thread :
        (Done(t) /\ StringsOk(t) /\ LenOk(t) /\ Resolvable(ReqHash(t))
            /\ IsCInt(ReqIters(t)) /\ CIntOf(ReqIters(t)) < 1) =>
            (err[t] # NoErr /\ prf[t] = 0 /\ ~result[t].ret)

C5_NegativeLengthRejected ==
    \A t \in Thread :
        /\ (Done(t) /\ ReqLen(t).t = "int" /\ ReqLen(t).neg) =>
              (err[t] # NoErr /\ prf[t] = 0 /\ ~result[t].ret)
        /\ (Done(t) /\ ReqLen(t) = Integer(-1) /\ StringsOk(t) /\ ItersOk(t)
               /\ Resolvable(ReqHash(t))) =>
              err[t] = "ArgumentError"

C5_Witness ==
    \E t \in Thread :
        /\ Done(t) /\ ReqLen(t) = Integer(-1)
        /\ StringsOk(t) /\ ItersOk(t) /\ Resolvable(ReqHash(t))
        /\ err[t] = "ArgumentError" /\ prf[t] = 0

\* C6: an unresolvable hash name fails at hash resolution, with the
\* unsupported-digest error, before the output buffer is allocated and before
\* any PRF invocation, whatever the (convertible) other arguments are.
C6_UnknownHashRejected ==
    \A t \in Thread :
        (Done(t) /\ StringsOk(t) /\ IsCInt(ReqIters(t)) /\ IsCInt(ReqLen(t))
            /\ ReqHash(t).t = "str" /\ ~Resolvable(ReqHash(t))) =>
            /\ err[t] = "UnsupportedDigest"
            /\ ~str[t].alloc
            /\ prf[t] = 0
            /\ ~result[t].ret

C6_Witness ==
    \E t \in Thread :
        /\ Done(t) /\ StringsOk(t) /\ ItersOk(t) /\ LenOk(t)
        /\ ReqHash(t) = Str(<<90>>)
        /\ err[t] = "UnsupportedDigest" /\ ~str[t].alloc

\* n > (2^32 - 1) * hLen, on the hi/lo form of n.
TooManyBlocks(v, hLen) ==
    /\ v.t = "int" /\ ~v.neg
    /\ \/ v.hi > (hLen * 65536) - 1
       \/ (v.hi = (hLen * 65536) - 1 /\ v.lo > 65536 - hLen)

\* C7: a request needing more than 2^32 - 1 blocks fails and invokes no PRF;
\* a call that succeeds ran with exactly the requested length and iteration
\* count (nothing was truncated on the way to the C int) and its last block
\* index is the true block count.
C7_NoWrap ==
    \A t \in Thread :
        /\ (Done(t) /\ \A m \in {1, 2} : TooManyBlocks(ReqLen(t), MdSize(m))) =>
              (err[t] # NoErr /\ prf[t] = 0 /\ ~result[t].ret)
        /\ (Done(t) /\ result[t].ret) =>
              /\ IsCInt(ReqLen(t)) /\ len[t] = CIntOf(ReqLen(t))
              /\ IsCInt(ReqIters(t)) /\ iters[t] = CIntOf(ReqIters(t))
              /\ last[t] >= 0
              /\ last[t] * MdSize(md[t]) >= len[t]
              /\ last[t] * MdSize(md[t]) < len[t] + MdSize(md[t])

C7_Witness ==
    \E t \in Thread :
        /\ Done(t) /\ StringsOk(t) /\ ItersOk(t) /\ Resolvable(ReqHash(t))
        /\ ReqLen(t) = Bignum(262144, 0)
        /\ TooManyBlocks(ReqLen(t), MdSize(HashOf(ReqHash(t))))
        /\ err[t] = "RangeError" /\ prf[t] = 0

\* The outcome of a call that runs with no other call around.
Raised(e) == [err |-> e, result |-> NoResult]

RunAlone(a, fl, lb) ==
    LET ids == <<rb_intern_const("salt"), rb_intern_const("iterations"),
                 rb_intern_const("length"), rb_intern_const("hash")>>
        k == rb_get_kwargs(a.opts, ids)
        p == StringValue(a.pass)
        s == StringValue(k.vals[1])
        i == NUM2INT(k.vals[2])
        l == NUM2INT(k.vals[3])
        d == GetDigestPtr(k.vals[4])
        b == rb_str_new(l.val)
        r == CallPKCS5(lb, fl, p.val, s.val, i.val, d.md, l.val, b.str)
    IN  IF k.err # NoErr THEN Raised(k.err)
        ELSE IF p.err # NoErr THEN Raised(p.err)
        ELSE IF s.err # NoErr THEN Raised(s.err)
        ELSE IF i.err # NoErr THEN Raised(i.err)
        ELSE IF l.err # NoErr THEN Raised(l.err)
        ELSE IF d.err # NoErr THEN Raised(d.err)
        ELSE IF b.err # NoErr THEN Raised(b.err)
        ELSE IF P5Failed(r.ret) THEN Raised("KDFError")
        ELSE [err |-> NoErr, result |-> [ret |-> TRUE, val |-> r.out]]

\* C8: under any interleaving of two calls, the first ones racing on
\* kwargs_ids included, each call ends as it would have ended alone, and a
\* step of one call leaves the other call's buffer and outcome alone.
C8_Isolation ==
    /\ [](\A t \in Thread :
            Done(t) => [err |-> err[t], result |-> result[t]]
                          = RunAlone(argv[t], fault[t], lib))
    /\ [][\A t \in Thread :
            pc'[t] = pc[t] => (str'[t] = str[t] /\ result'[t] = result[t]
                                 /\ err'[t] = err[t])]_vars

C8_Witness ==
    /\ pc[1] = "L58" /\ pc[2] = "L58"
    /\ argv[1] # argv[2]
    /\ str[1].alloc /\ str[2].alloc

\* C9: two calls with the same arguments end identically, whichever ran
\* first and whatever ran before them.
C9_Deterministic ==
    (Done(1) /\ Done(2) /\ argv[1] = argv[2] /\ fault[1] = fault[2]) =>
        (result[1] = result[2] /\ err[1] = err[2])

C9_Witness ==
    /\ Done(1) /\ Done(2) /\ argv[1] = argv[2]
    /\ result[1].ret /\ result[2].ret
    /\ Len(result[1].val) = 3

\* C10: with password, salt, iterations and hash fixed, the key for length m
\* is a prefix of the key for length n >= m.
C10_Prefix ==
    (Done(1) /\ Done(2) /\ result[1].ret /\ result[2].ret
        /\ ReqPass(1) = ReqPass(2) /\ ReqSalt(1) = ReqSalt(2)
        /\ ReqIters(1) = ReqIters(2) /\ ReqHash(1) = ReqHash(2)
        /\ len[1] <= len[2]) =>
        result[1].val = SubSeq(result[2].val, 1, len[1])

C10_Witness ==
    /\ Done(1) /\ Done(2) /\ result[1].ret /\ result[2].ret
    /\ ReqPass(1) = ReqPass(2) /\ ReqSalt(1) = ReqSalt(2)
    /\ ReqIters(1) = ReqIters(2) /\ ReqIters(1) = Integer(2)
    /\ ReqHash(1) = ReqHash(2)
    /\ len[1] = 2 /\ len[2] = 4

====
